---- MODULE Spec2Model ----
(***************************************************************************)
(* Model of the ec-slimloader descriptor library (src/src/lib.rs).         *)
(*                                                                         *)
(* A u32 is the tuple of its four bytes in memory order (little endian,    *)
(* least significant byte first), so that the packed records, bytes_of and *)
(* the CRC are modelled on the bytes the code works on.  Memory is a       *)
(* function from addresses to bytes, owned by the environment: a           *)
(* provisioning tool writes records into it and faults corrupt it.         *)
(***************************************************************************)
EXTENDS Integers, Sequences, FiniteSets, TLC

VARIABLES
    mem,      \* the externally owned memory, address -> byte
    mgr,      \* the BootableRegionDescriptors value of the caller, once built
    res,      \* the observable result of the last library call
    writes,   \* how many external writes happened so far
    pc,       \* "running", or "aborted" after a panic
    version,  \* the package version of this build (injected by build.rs)
    mem0      \* history: the memory as it was when mgr was built

vars == <<mem, mgr, res, writes, pc, version, mem0>>

----------------------------------------------------------------------------
(* Bounds of the model *)

\* the largest slot count the provisioning tool writes
MaxSlots == 3

\* how many external writes (tool writes and faults) one run holds
MaxWrites == 2

----------------------------------------------------------------------------
(* Bytes and 32-bit words *)

Byte == 0..255

\* a ^ b and a | b on the k low bits, bit by bit
RECURSIVE XorBits(_, _, _)
XorBits(a, b, k) ==
    IF k = 0 THEN 0 ELSE ((a + b) % 2) + (2 * XorBits(a \div 2, b \div 2, k - 1))

RECURSIVE OrBits(_, _, _)
OrBits(a, b, k) ==
    IF k = 0 THEN 0
    ELSE (IF (a % 2) + (b % 2) > 0 THEN 1 ELSE 0) + (2 * OrBits(a \div 2, b \div 2, k - 1))

\* a ^ b on bytes, tabulated once
ByteXorTable == [a \in Byte |-> [b \in Byte |-> XorBits(a, b, 8)]]

\* a ^ b on bytes
ByteXor(a, b) == ByteXorTable[a][b]

\* the u32 of a natural below 2^31
U32(n) == << n % 256, (n \div 256) % 256, (n \div 65536) % 256, n \div 16777216 >>

\* the natural of a u32 (as usize); the model keeps it below 2^31
ToNat(x) == x[1] + (256 * x[2]) + (65536 * x[3]) + (16777216 * x[4])

\* x < y on u32
U32Lt(x, y) ==
    \/ x[4] < y[4]
    \/ x[4] = y[4] /\ x[3] < y[3]
    \/ x[4] = y[4] /\ x[3] = y[3] /\ x[2] < y[2]
    \/ x[4] = y[4] /\ x[3] = y[3] /\ x[2] = y[2] /\ x[1] < y[1]

\* x | y on u32
U32Or(x, y) ==
    << OrBits(x[1], y[1], 8), OrBits(x[2], y[2], 8), OrBits(x[3], y[3], 8), OrBits(x[4], y[4], 8) >>

----------------------------------------------------------------------------
(* CRC-32/CKSUM: polynomial 0x04C11DB7, init 0, not reflected, xorout      *)
(* 0xFFFFFFFF.  The register is kept most significant byte first.          *)

CrcPoly == << 4, 193, 29, 183 >>

XorW(v, w) ==
    << ByteXor(v[1], w[1]), ByteXor(v[2], w[2]), ByteXor(v[3], w[3]), ByteXor(v[4], w[4]) >>

\* v << 1 on the register
Shl1(v) ==
    << ((2 * v[1]) % 256) + (v[2] \div 128), ((2 * v[2]) % 256) + (v[3] \div 128),
       ((2 * v[3]) % 256) + (v[4] \div 128), (2 * v[4]) % 256 >>

\* one bit of the division by the polynomial, k times
RECURSIVE CrcBitSteps(_, _)
CrcBitSteps(v, k) ==
    IF k = 0 THEN v
    ELSE CrcBitSteps(IF v[1] >= 128 THEN XorW(Shl1(v), CrcPoly) ELSE Shl1(v), k - 1)

\* the byte-indexed lookup table of the algorithm
CrcTable == [i \in Byte |-> CrcBitSteps(<< i, 0, 0, 0 >>, 8)]

\* the register after one more byte b
CrcByteStep(crc, b) ==
    XorW(<< crc[2], crc[3], crc[4], 0 >>, CrcTable[ByteXor(crc[1], b)])

\* the register after the bytes k, k+1, ... of the sequence
RECURSIVE CrcUpdate(_, _, _)
CrcUpdate(crc, bytes, k) ==
    IF k > Len(bytes) THEN crc
    ELSE LET next == CrcByteStep(crc, bytes[k])
         IN  IF next[1] \in Byte THEN CrcUpdate(next, bytes, k + 1) ELSE next

\* Crc::<u32>::new(&CRC_32_CKSUM).checksum(bytes), as a u32
Checksum(bytes) ==
    LET c == CrcUpdate(<< 0, 0, 0, 0 >>, bytes, 1)
    IN  << 255 - c[4], 255 - c[3], 255 - c[2], 255 - c[1] >>

----------------------------------------------------------------------------
(* Constants of the library *)

BOOT_REGION_DESCRIPTOR_SIGNATURE == << 34, 34, 34, 34 >>

BOOT_REGION_DESCRIPTOR_SIZE == 32

APP_IMAGE_DESCRIPTOR_SIZE == 44

APP_IMAGE_FLAG_COPY_TO_EXECUTION_ADDRESS == 1

\* CRATE_VERSION for a package version <<major, minor, patch>>: 0xMMmmmmpp
CRATE_VERSION(v) == << v[3] % 256, v[2] % 256, (v[2] \div 256) % 256, v[1] % 256 >>

\* the package versions the model is built for
Versions == { << 0, 1, 0 >>, << 1, 2, 3 >> }

----------------------------------------------------------------------------
(* Memory *)

\* the byte at address a
Load(m, a) == m[a]

LoadU32(m, a) == << Load(m, a), Load(m, a + 1), Load(m, a + 2), Load(m, a + 3) >>

\* m with the byte sequence bytes written at address a
Store(m, a, bytes) ==
    [x \in DOMAIN m |-> IF x >= a /\ x < a + Len(bytes) THEN bytes[x - a + 1] ELSE m[x]]

\* a buffer holding exactly the byte sequence bytes, at address 0
BufferOf(bytes) == [x \in 0..(Len(bytes) - 1) |-> bytes[x + 1]]

----------------------------------------------------------------------------
(* Results *)

Ok(v, reads) == [ok |-> TRUE, value |-> v, reads |-> reads]

Err(e, reads) == [ok |-> FALSE, err |-> e, reads |-> reads]

InvalidSignature == [kind |-> "InvalidSignature"]

InvalidHeaderCrc(found, expected) ==
    [kind |-> "InvalidHeaderCrc", found |-> found, expected |-> expected]

InvalidAppCrc(address, found, expected) ==
    [kind |-> "InvalidAppCrc", address |-> address, found |-> found, expected |-> expected]

InvalidAppSlot == [kind |-> "InvalidAppSlot"]

InvalidSlotCount == [kind |-> "InvalidSlotCount"]

----------------------------------------------------------------------------
(* BootableRegionDescriptorHeader *)

\* *(address as *const BootableRegionDescriptorHeader)
HeaderAt(m, address) ==
    [ signature                    |-> LoadU32(m, address),
      descriptor_version           |-> LoadU32(m, address + 4),
      descriptor_header_size_bytes |-> LoadU32(m, address + 8),
      app_descriptor_size_bytes    |-> LoadU32(m, address + 12),
      app_descriptor_base_address  |-> LoadU32(m, address + 16),
      num_app_slots                |-> LoadU32(m, address + 20),
      active_app_slot              |-> LoadU32(m, address + 24),
      header_crc                   |-> LoadU32(m, address + 28) ]

Header_as_bytes(h) ==
    h.signature \o h.descriptor_version \o h.descriptor_header_size_bytes
      \o h.app_descriptor_size_bytes \o h.app_descriptor_base_address
      \o h.num_app_slots \o h.active_app_slot \o h.header_crc

\* mutant: the checksum also covers the header_crc field
Header_compute_crc_whole_record(h) ==
    Checksum(SubSeq(Header_as_bytes(h), 1, BOOT_REGION_DESCRIPTOR_SIZE))

Header_compute_crc(h) ==
    Checksum(SubSeq(Header_as_bytes(h), 1, BOOT_REGION_DESCRIPTOR_SIZE - 4))

Header_is_crc_valid(h) == h.header_crc = Header_compute_crc(h)

\* mutant: the checksum is checked before the signature
Header_from_address_crc_first(m, address) ==
    LET unvalidated == HeaderAt(m, address)
    IN  IF ~Header_is_crc_valid(unvalidated)
          THEN Err(InvalidHeaderCrc(unvalidated.header_crc,
                                    Header_compute_crc(unvalidated)), << address >>)
        ELSE IF unvalidated.signature # BOOT_REGION_DESCRIPTOR_SIGNATURE
          THEN Err(InvalidSignature, << address >>)
        ELSE IF U32Lt(unvalidated.num_app_slots, U32(1))
          THEN Err(InvalidSlotCount, << address >>)
        ELSE IF ~U32Lt(unvalidated.active_app_slot, unvalidated.num_app_slots)
          THEN Err(InvalidAppSlot, << address >>)
        ELSE Ok(unvalidated, << address >>)

Header_from_address(m, address) ==
    LET unvalidated == HeaderAt(m, address)
    IN  IF unvalidated.signature # BOOT_REGION_DESCRIPTOR_SIGNATURE
          THEN Err(InvalidSignature, << address >>)
        ELSE IF ~Header_is_crc_valid(unvalidated)
          THEN Err(InvalidHeaderCrc(unvalidated.header_crc,
                                    Header_compute_crc(unvalidated)), << address >>)
        ELSE IF U32Lt(unvalidated.num_app_slots, U32(1))
          THEN Err(InvalidSlotCount, << address >>)
        ELSE IF ~U32Lt(unvalidated.active_app_slot, unvalidated.num_app_slots)
          THEN Err(InvalidAppSlot, << address >>)
        ELSE Ok(unvalidated, << address >>)

Header_new(ver, app_slot_count, active_app_slot, app_descriptor_address) ==
    LET this == [ signature                    |-> BOOT_REGION_DESCRIPTOR_SIGNATURE,
                  descriptor_version           |-> CRATE_VERSION(ver),
                  descriptor_header_size_bytes |-> U32(BOOT_REGION_DESCRIPTOR_SIZE),
                  app_descriptor_size_bytes    |-> U32(APP_IMAGE_DESCRIPTOR_SIZE),
                  app_descriptor_base_address  |-> app_descriptor_address,
                  num_app_slots                |-> app_slot_count,
                  active_app_slot              |-> active_app_slot,
                  header_crc                   |-> U32(0) ]
    IN  [this EXCEPT !.header_crc = Header_compute_crc(this)]

----------------------------------------------------------------------------
(* AppImageDescriptor *)

\* *(address as *const AppImageDescriptor)
AppAt(m, address) ==
    [ descriptor_version        |-> LoadU32(m, address),
      app_slot_number           |-> LoadU32(m, address + 4),
      app_version               |-> LoadU32(m, address + 8),
      security_version          |-> LoadU32(m, address + 12),
      flags                     |-> LoadU32(m, address + 16),
      stored_address            |-> LoadU32(m, address + 20),
      image_size_bytes          |-> LoadU32(m, address + 24),
      stored_crc_address        |-> LoadU32(m, address + 28),
      execution_copy_size_bytes |-> LoadU32(m, address + 32),
      execution_address         |-> LoadU32(m, address + 36),
      descriptor_crc            |-> LoadU32(m, address + 40) ]

App_as_bytes(d) ==
    d.descriptor_version \o d.app_slot_number \o d.app_version \o d.security_version
      \o d.flags \o d.stored_address \o d.image_size_bytes \o d.stored_crc_address
      \o d.execution_copy_size_bytes \o d.execution_address \o d.descriptor_crc

\* mutant: the checksum stops one field short, before execution_address
App_compute_crc_one_field_short(d) ==
    Checksum(SubSeq(App_as_bytes(d), 1, APP_IMAGE_DESCRIPTOR_SIZE - 8))

App_compute_crc(d) ==
    Checksum(SubSeq(App_as_bytes(d), 1, APP_IMAGE_DESCRIPTOR_SIZE - 4))

App_is_crc_valid(d) == d.descriptor_crc = App_compute_crc(d)

App_from_address(m, address) ==
    LET unvalidated == AppAt(m, address)
    IN  IF ~App_is_crc_valid(unvalidated)
          THEN Err(InvalidAppCrc(address, unvalidated.descriptor_crc,
                                 App_compute_crc(unvalidated)), << address >>)
        ELSE Ok(unvalidated, << address >>)

App_from_region(m, app_descriptors_address_start, app_slot) ==
    App_from_address(m, app_descriptors_address_start + (app_slot * APP_IMAGE_DESCRIPTOR_SIZE))

\* mutant: the copy size is set as for a RAM image
App_new_execute_in_place_image_copy_size(ver, slot, app_version, security_version, flags, stored_address, image_size_bytes, stored_crc_address) ==
    LET d == [ descriptor_version        |-> CRATE_VERSION(ver),
               app_slot_number           |-> slot,
               app_version               |-> app_version,
               security_version          |-> security_version,
               flags                     |-> flags,
               stored_address            |-> stored_address,
               image_size_bytes          |-> image_size_bytes,
               stored_crc_address        |-> stored_crc_address,
               execution_copy_size_bytes |-> image_size_bytes,
               execution_address         |-> stored_address,
               descriptor_crc            |-> U32(0) ]
    IN  [d EXCEPT !.descriptor_crc = App_compute_crc(d)]

App_new_execute_in_place_image(ver, slot, app_version, security_version, flags, stored_address, image_size_bytes, stored_crc_address) ==
    LET d == [ descriptor_version        |-> CRATE_VERSION(ver),
               app_slot_number           |-> slot,
               app_version               |-> app_version,
               security_version          |-> security_version,
               flags                     |-> flags,
               stored_address            |-> stored_address,
               image_size_bytes          |-> image_size_bytes,
               stored_crc_address        |-> stored_crc_address,
               execution_copy_size_bytes |-> U32(0),
               execution_address         |-> stored_address,
               descriptor_crc            |-> U32(0) ]
    IN  [d EXCEPT !.descriptor_crc = App_compute_crc(d)]

\* mutant: the copy flag replaces the caller's flags instead of being added
App_new_ram_image_flags_replaced(ver, slot, app_version, security_version, flags, flash_address, image_size_bytes, ram_address, stored_crc_address) ==
    LET d == [ descriptor_version        |-> CRATE_VERSION(ver),
               app_slot_number           |-> slot,
               app_version               |-> app_version,
               security_version          |-> security_version,
               flags                     |-> U32(APP_IMAGE_FLAG_COPY_TO_EXECUTION_ADDRESS),
               stored_address            |-> flash_address,
               image_size_bytes          |-> image_size_bytes,
               stored_crc_address        |-> stored_crc_address,
               execution_copy_size_bytes |-> image_size_bytes,
               execution_address         |-> ram_address,
               descriptor_crc            |-> U32(0) ]
    IN  [d EXCEPT !.descriptor_crc = App_compute_crc(d)]

App_new_ram_image(ver, slot, app_version, security_version, flags, flash_address, image_size_bytes, ram_address, stored_crc_address) ==
    LET d == [ descriptor_version        |-> CRATE_VERSION(ver),
               app_slot_number           |-> slot,
               app_version               |-> app_version,
               security_version          |-> security_version,
               flags                     |-> U32Or(flags, U32(APP_IMAGE_FLAG_COPY_TO_EXECUTION_ADDRESS)),
               stored_address            |-> flash_address,
               image_size_bytes          |-> image_size_bytes,
               stored_crc_address        |-> stored_crc_address,
               execution_copy_size_bytes |-> image_size_bytes,
               execution_address         |-> ram_address,
               descriptor_crc            |-> U32(0) ]
    IN  [d EXCEPT !.descriptor_crc = App_compute_crc(d)]

----------------------------------------------------------------------------
(* BootableRegionDescriptors, the manager *)

\* mutant: the loop goes on after a failure and passes up the last one
RECURSIVE ValidateSlots_last_error(_, _, _, _)
ValidateSlots_last_error(m, header, i, reads) ==
    IF i >= ToNat(header.num_app_slots) THEN Ok(header, reads)
    ELSE LET r    == App_from_region(m, ToNat(header.app_descriptor_base_address), i)
             rest == ValidateSlots_last_error(m, header, i + 1, reads \o << r.reads[1] >>)
         IN  IF ~rest.ok THEN rest
             ELSE IF ~r.ok THEN Err(r.err, rest.reads)
             ELSE rest

\* the loop over the slots i, i+1, ... of from_address: the first failure is
\* passed up by `?`, and the addresses read are collected
RECURSIVE ValidateSlots(_, _, _, _)
RECURSIVE ValidateSlot(_, _, _, _, _)
ValidateSlots(m, header, i, reads) ==
    IF i >= ToNat(header.num_app_slots) THEN Ok(header, reads)
    ELSE ValidateSlot(m, header, i, reads,
                      App_from_region(m, ToNat(header.app_descriptor_base_address), i))

\* the body of the loop, r being the Result of from_region for slot i
ValidateSlot(m, header, i, reads, r) ==
    IF ~r.ok THEN Err(r.err, reads \o r.reads)
    ELSE ValidateSlots(m, header, i + 1, reads \o r.reads)

\* mutant: only the active slot is validated
Descriptors_from_address_active_only(m, address) ==
    LET h == Header_from_address(m, address)
    IN  IF ~h.ok THEN h
        ELSE LET r == App_from_region(m, ToNat(h.value.app_descriptor_base_address),
                                      ToNat(h.value.active_app_slot))
             IN  IF ~r.ok THEN Err(r.err, h.reads \o r.reads)
                 ELSE Ok([_base_address |-> address, header |-> h.value], h.reads \o r.reads)

\* from_address once the header h was parsed
Descriptors_from_header(m, address, h) ==
    IF ~h.ok THEN h ELSE ValidateSlots(m, h.value, 0, h.reads)

\* Ok(this) after the loop, or the error passed up
Descriptors_result(address, walk) ==
    IF ~walk.ok THEN walk
    ELSE Ok([_base_address |-> address, header |-> walk.value], walk.reads)

Descriptors_from_address(m, address) ==
    Descriptors_result(address,
                       Descriptors_from_header(m, address, Header_from_address(m, address)))

\* the Result that get_active_slot unwraps
Descriptors_active_slot_result(this, m) ==
    App_from_region(m, ToNat(this.header.app_descriptor_base_address),
                    ToNat(this.header.active_app_slot))

\* mutant: the bound is checked with > instead of >=
Descriptors_get_app_at_slot_off_by_one(this, m, app_slot) ==
    IF app_slot > ToNat(this.header.num_app_slots) THEN Err(InvalidAppSlot, << >>)
    ELSE App_from_region(m, ToNat(this.header.app_descriptor_base_address), app_slot)

\* mutant: the array base is read again from the header in memory
Descriptors_get_app_at_slot_reread_header(this, m, app_slot) ==
    IF app_slot >= ToNat(this.header.num_app_slots) THEN Err(InvalidAppSlot, << >>)
    ELSE App_from_region(m, ToNat(HeaderAt(m, this._base_address).app_descriptor_base_address),
                         app_slot)

Descriptors_get_app_at_slot(this, m, app_slot) ==
    IF app_slot >= ToNat(this.header.num_app_slots) THEN Err(InvalidAppSlot, << >>)
    ELSE App_from_region(m, ToNat(this.header.app_descriptor_base_address), app_slot)

----------------------------------------------------------------------------
(* The environment: where the region lives and who writes it *)

\* the address the bootloader hands to from_address
HeaderAddr == 0

\* the physical slot p of the descriptor area, which follows the header
SlotAddr(p) == HeaderAddr + BOOT_REGION_DESCRIPTOR_SIZE + (p * APP_IMAGE_DESCRIPTOR_SIZE)

\* the descriptor array starts at physical slot 0 or at physical slot 1
ArrayBases == { SlotAddr(0), SlotAddr(1) }

PhysicalSlots == 0..MaxSlots

MemAddrs == HeaderAddr..(SlotAddr(MaxSlots + 1) - 1)

\* the images the provisioning tool describes: an execute-in-place image or
\* an image copied to RAM, of application version app_version
ToolImage(ver, p, kind, app_version) ==
    IF kind = "xip"
      THEN App_new_execute_in_place_image(ver, U32(p), U32(app_version), U32(1), U32(0),
                                          U32(4096 * (p + 1)), U32(256), U32(4096 * (p + 1) + 256))
      ELSE App_new_ram_image(ver, U32(p), U32(app_version), U32(1), U32(2),
                             U32(8192 * (p + 1)), U32(512), U32(536870912),
                             U32(8192 * (p + 1) + 512))

\* the bytes faults hit: the first byte of every header field, and in every
\* physical slot a byte of the flags and a byte of the descriptor_crc
CorruptAddrs ==
    { HeaderAddr + (4 * f) : f \in 0..7 }
      \cup { SlotAddr(p) + 16 : p \in PhysicalSlots }
      \cup { SlotAddr(p) + 40 : p \in PhysicalSlots }

\* a region as provisioned: a header for MaxSlots slots at the first array
\* base with slot 0 active, physical slots 0..MaxSlots-1 holding valid
\* execute-in-place descriptors, the last physical slot erased (all 0xFF)
ProvisionedMemory(ver) ==
    [x \in MemAddrs |->
        IF x < SlotAddr(0)
          THEN Header_as_bytes(Header_new(ver, U32(MaxSlots), U32(0), U32(SlotAddr(0))))[x - HeaderAddr + 1]
        ELSE LET p == (x - SlotAddr(0)) \div APP_IMAGE_DESCRIPTOR_SIZE
             IN  IF p < MaxSlots
                   THEN App_as_bytes(ToolImage(ver, p, "xip", 1))[x - SlotAddr(p) + 1]
                   ELSE 255]

NoCall == [op |-> "none"]

Unvalidated == [state |-> "Unvalidated"]

Init ==
    /\ version \in Versions
    /\ mem = ProvisionedMemory(version)
    /\ mgr = Unvalidated
    /\ res = NoCall
    /\ writes = 0
    /\ pc = "running"
    /\ mem0 = mem

----------------------------------------------------------------------------
(* External writes *)

\* the provisioning tool builds a header and writes its bytes
ToolWriteHeader(n, a, base) ==
    /\ pc = "running"
    /\ writes < MaxWrites
    /\ mem' = Store(mem, HeaderAddr, Header_as_bytes(Header_new(version, U32(n), U32(a), U32(base))))
    /\ writes' = writes + 1
    /\ res' = NoCall
    /\ UNCHANGED <<mgr, pc, version, mem0>>

\* the provisioning tool builds a descriptor and writes it to a physical slot
ToolWriteSlot(p, kind) ==
    /\ pc = "running"
    /\ writes < MaxWrites
    /\ mem' = Store(mem, SlotAddr(p), App_as_bytes(ToolImage(version, p, kind, 2)))
    /\ writes' = writes + 1
    /\ res' = NoCall
    /\ UNCHANGED <<mgr, pc, version, mem0>>

\* a fault inverts one byte of the memory
CorruptByte(a) ==
    /\ pc = "running"
    /\ writes < MaxWrites
    /\ mem' = [mem EXCEPT ![a] = ByteXor(mem[a], 255)]
    /\ writes' = writes + 1
    /\ res' = NoCall
    /\ UNCHANGED <<mgr, pc, version, mem0>>

----------------------------------------------------------------------------
(* Library calls *)

Returned(op, arg, ret) == [op |-> op, arg |-> arg, outcome |-> "returned", ret |-> ret]

Panicked(op, arg) == [op |-> op, arg |-> arg, outcome |-> "panicked"]

CallHeaderFromAddress ==
    /\ pc = "running"
    /\ res' = Returned("Header_from_address", HeaderAddr, Header_from_address(mem, HeaderAddr))
    /\ UNCHANGED <<mem, mgr, writes, pc, version, mem0>>

\* the caller keeps the manager of an Ok, and nothing of an Err
Constructed(r) ==
    /\ res' = Returned("Descriptors_from_address", HeaderAddr, r)
    /\ mgr' = IF r.ok
                THEN [state |-> "Ready", _base_address |-> r.value._base_address,
                      header |-> r.value.header]
                ELSE [state |-> "Rejected", err |-> r.err]

\* BootableRegionDescriptors::from_address: Unvalidated -> Ready or Rejected
CallDescriptorsFromAddress ==
    /\ pc = "running"
    /\ mgr = Unvalidated
    /\ Constructed(Descriptors_from_address(mem, HeaderAddr))
    /\ mem0' = mem
    /\ UNCHANGED <<mem, writes, pc, version>>

\* .unwrap(): the descriptor of an Ok, a panic on an Err
Unwrapped(r) ==
    IF r.ok
      THEN /\ res' = Returned("get_active_slot", ToNat(mgr.header.active_app_slot), r)
           /\ pc' = pc
      ELSE /\ res' = Panicked("get_active_slot", ToNat(mgr.header.active_app_slot))
           /\ pc' = "aborted"

CallGetActiveSlot ==
    /\ pc = "running"
    /\ mgr.state = "Ready"
    /\ Unwrapped(Descriptors_active_slot_result(mgr, mem))
    /\ UNCHANGED <<mem, mgr, writes, version, mem0>>

CallGetAppAtSlot(app_slot) ==
    /\ pc = "running"
    /\ mgr.state = "Ready"
    /\ res' = Returned("get_app_at_slot", app_slot, Descriptors_get_app_at_slot(mgr, mem, app_slot))
    /\ UNCHANGED <<mem, mgr, writes, pc, version, mem0>>

Next ==
    \/ \E n \in 0..MaxSlots, a \in 0..(MaxSlots - 1), base \in ArrayBases : ToolWriteHeader(n, a, base)
    \/ \E p \in PhysicalSlots, kind \in {"xip", "ram"} : ToolWriteSlot(p, kind)
    \/ \E a \in CorruptAddrs : CorruptByte(a)
    \/ CallHeaderFromAddress
    \/ CallDescriptorsFromAddress
    \/ CallGetActiveSlot
    \/ \E app_slot \in 0..(MaxSlots + 1) : CallGetAppAtSlot(app_slot)

Spec == Init /\ [][Next]_vars

----------------------------------------------------------------------------
(* What the memory holds now, stated on the bytes *)

MemHeader == HeaderAt(mem, HeaderAddr)

SignatureOk == MemHeader.signature = BOOT_REGION_DESCRIPTOR_SIGNATURE

HeaderCrcOk == MemHeader.header_crc = Checksum(SubSeq(Header_as_bytes(MemHeader), 1, 28))

SlotCountOk == MemHeader.num_app_slots # U32(0)

ActiveSlotOk == U32Lt(MemHeader.active_app_slot, MemHeader.num_app_slots)

HeaderPasses == SignatureOk /\ HeaderCrcOk /\ SlotCountOk /\ ActiveSlotOk

\* the address of slot i of the array starting at base
SlotAt(base, i) == ToNat(base) + (i * 44)

\* the descriptor bytes at address a carry their own checksum
DescriptorValidAt(a) ==
    LoadU32(mem, a + 40) = Checksum([k \in 1..40 |-> Load(mem, a + k - 1)])

\* the slots the header in memory declares
DeclaredSlots == 0..(ToNat(MemHeader.num_app_slots) - 1)

DeclaredSlotValid(i) == DescriptorValidAt(SlotAt(MemHeader.app_descriptor_base_address, i))

IsCall(op) == res.op = op /\ res.outcome = "returned"

----------------------------------------------------------------------------
(* C1: BootableRegionDescriptors::from_address returns Ok, and the manager *)
(* is Ready, exactly when the header at the address passes all header      *)
(* checks and every declared slot has a valid checksum; with a passing     *)
(* header and any one invalid slot it fails with InvalidAppCrc and no      *)
(* manager is produced.                                                    *)
C1_ReadyIffAllValid ==
    IsCall("Descriptors_from_address") =>
        /\ res.ret.ok <=> (HeaderPasses /\ \A i \in DeclaredSlots : DeclaredSlotValid(i))
        /\ res.ret.ok <=> mgr.state = "Ready"
        /\ (HeaderPasses /\ \E i \in DeclaredSlots : ~DeclaredSlotValid(i)) =>
              /\ ~res.ret.ok
              /\ res.ret.err.kind = "InvalidAppCrc"
              /\ mgr.state = "Rejected"

\* construction fails with InvalidAppCrc on slot 1 of 2 although slot 0 is valid
C1_Witness ==
    /\ IsCall("Descriptors_from_address")
    /\ HeaderPasses
    /\ MemHeader.num_app_slots = U32(2)
    /\ DeclaredSlotValid(0)
    /\ ~DeclaredSlotValid(1)
    /\ ~res.ret.ok
    /\ res.ret.err.kind = "InvalidAppCrc"

----------------------------------------------------------------------------
(* C2: BootableRegionDescriptorHeader::from_address reports exactly the    *)
(* first violated check in the order signature, checksum, slot count,      *)
(* active slot, and otherwise returns the header.                          *)
C2_FirstViolatedCheck ==
    IsCall("Header_from_address") =>
        /\ ~SignatureOk => ~res.ret.ok /\ res.ret.err = [kind |-> "InvalidSignature"]
        /\ (SignatureOk /\ ~HeaderCrcOk) =>
              /\ ~res.ret.ok
              /\ res.ret.err = [kind |-> "InvalidHeaderCrc",
                                found |-> MemHeader.header_crc,
                                expected |-> Checksum(SubSeq(Header_as_bytes(MemHeader), 1, 28))]
        /\ (SignatureOk /\ HeaderCrcOk /\ ~SlotCountOk) =>
              ~res.ret.ok /\ res.ret.err = [kind |-> "InvalidSlotCount"]
        /\ (SignatureOk /\ HeaderCrcOk /\ SlotCountOk /\ ~ActiveSlotOk) =>
              ~res.ret.ok /\ res.ret.err = [kind |-> "InvalidAppSlot"]
        /\ HeaderPasses => res.ret.ok /\ res.ret.value = MemHeader

\* a checksum error is reported for a header that also declares zero slots
C2_Witness ==
    /\ IsCall("Header_from_address")
    /\ SignatureOk
    /\ ~HeaderCrcOk
    /\ ~SlotCountOk
    /\ res.ret.err.kind = "InvalidHeaderCrc"

----------------------------------------------------------------------------
(* C3: no library operation ever aborts: get_active_slot on a Ready        *)
(* manager always returns a descriptor, also after the memory was modified *)
(* following construction.                                                 *)
C3_NeverAborts == pc # "aborted" /\ (res.op = "get_active_slot" => res.outcome = "returned")

----------------------------------------------------------------------------
(* C4: a rejected construction returns the first error in validation       *)
(* order: a header error before every slot error, and among invalid slots  *)
(* InvalidAppCrc for the lowest invalid slot, with its address, the stored *)
(* checksum (found) and the computed checksum (expected); later slots are  *)
(* not read.                                                               *)
LowestInvalidSlot == CHOOSE i \in DeclaredSlots :
    ~DeclaredSlotValid(i) /\ \A j \in DeclaredSlots : j < i => DeclaredSlotValid(j)

C4_FirstErrorWins ==
    (IsCall("Descriptors_from_address") /\ ~res.ret.ok) =>
        /\ ~SignatureOk => res.ret.err.kind = "InvalidSignature"
        /\ (SignatureOk /\ ~HeaderCrcOk) => res.ret.err.kind = "InvalidHeaderCrc"
        /\ (SignatureOk /\ HeaderCrcOk /\ ~SlotCountOk) => res.ret.err.kind = "InvalidSlotCount"
        /\ (SignatureOk /\ HeaderCrcOk /\ SlotCountOk /\ ~ActiveSlotOk) =>
              res.ret.err.kind = "InvalidAppSlot"
        /\ ~HeaderPasses => res.ret.reads = << HeaderAddr >>
        /\ HeaderPasses =>
              LET a == SlotAt(MemHeader.app_descriptor_base_address, LowestInvalidSlot)
              IN  /\ res.ret.err = [kind |-> "InvalidAppCrc", address |-> a,
                                    found |-> LoadU32(mem, a + 40),
                                    expected |-> Checksum([k \in 1..40 |-> Load(mem, a + k - 1)])]
                  /\ res.ret.reads = << HeaderAddr >> \o
                        [i \in 1..(LowestInvalidSlot + 1) |->
                            SlotAt(MemHeader.app_descriptor_base_address, i - 1)]

\* two declared slots are invalid and the error names the lower one
C4_Witness ==
    /\ IsCall("Descriptors_from_address")
    /\ HeaderPasses
    /\ \E i, j \in DeclaredSlots :
          /\ i < j
          /\ ~DeclaredSlotValid(i)
          /\ ~DeclaredSlotValid(j)
          /\ res.ret.err.kind = "InvalidAppCrc"
          /\ res.ret.err.address = SlotAt(MemHeader.app_descriptor_base_address, i)

----------------------------------------------------------------------------
(* C5: on a Ready manager with num_app_slots = n, get_app_at_slot(i)       *)
(* returns InvalidAppSlot for i >= n without reading slot memory, and for  *)
(* i < n the descriptor at slot i, which is Ok while the memory is as it   *)
(* was at construction.                                                    *)
C5_SlotBounds ==
    IsCall("get_app_at_slot") =>
        LET n == ToNat(mgr.header.num_app_slots)
            a == SlotAt(mgr.header.app_descriptor_base_address, res.arg)
        IN  /\ res.arg >= n =>
                  /\ ~res.ret.ok
                  /\ res.ret.err = [kind |-> "InvalidAppSlot"]
                  /\ res.ret.reads = << >>
            /\ res.arg < n =>
                  /\ res.ret.reads = << a >>
                  /\ res.ret.ok => res.ret.value = AppAt(mem, a)
                  /\ ~res.ret.ok => res.ret.err.kind = "InvalidAppCrc"
                  /\ mem = mem0 => res.ret.ok

\* with three slots, slot 3 is refused
C5_Witness ==
    /\ IsCall("get_app_at_slot")
    /\ mgr.header.num_app_slots = U32(3)
    /\ res.arg = 3
    /\ res.ret.err.kind = "InvalidAppSlot"

----------------------------------------------------------------------------
(* C6: once built, the manager never changes, whatever is queried or       *)
(* written; every get_app_at_slot and get_active_slot reads and checksums  *)
(* the slot in the current memory, at the slot count, active index and     *)
(* array base captured at construction, not those now in memory.           *)
QueryReadsCurrentMemory ==
    /\ (IsCall("get_app_at_slot") /\ res.arg < ToNat(mgr.header.num_app_slots)) =>
          LET a == SlotAt(mgr.header.app_descriptor_base_address, res.arg)
          IN  /\ res.ret.ok <=> DescriptorValidAt(a)
              /\ res.ret.ok => res.ret.value = AppAt(mem, a)
              /\ ~res.ret.ok =>
                    res.ret.err = [kind |-> "InvalidAppCrc", address |-> a,
                                   found |-> LoadU32(mem, a + 40),
                                   expected |-> Checksum([k \in 1..40 |-> Load(mem, a + k - 1)])]
    /\ IsCall("get_active_slot") =>
          LET a == SlotAt(mgr.header.app_descriptor_base_address,
                          ToNat(mgr.header.active_app_slot))
          IN  /\ res.arg = ToNat(mgr.header.active_app_slot)
              /\ DescriptorValidAt(a)
              /\ res.ret.value = AppAt(mem, a)
    /\ mgr.state = "Ready" => mgr.header = HeaderAt(mem0, HeaderAddr)

----------------------------------------------------------------------------
(* The builders: arguments are drawn from samples of u32, the record is     *)
(* built, serialized into a buffer of its own and parsed back.             *)

MaxU32 == << 255, 255, 255, 255 >>

\* slot counts and indexes: 0 .. MaxSlots and the two largest u32
CountSamples == { U32(n) : n \in 0..MaxSlots } \cup { << 254, 255, 255, 255 >>, MaxU32 }

AddressSamples == { U32(0), U32(4096), U32(536870912), MaxU32 }

FlagSamples == { U32(0), U32(1), U32(2), << 254, 255, 255, 255 >> }

SizeSamples == { U32(0), U32(512) }

VersionSamples == { U32(0), << 7, 0, 1, 128 >> }

BuildHeader(n, a, addr) ==
    /\ pc = "running"
    /\ res = NoCall
    /\ LET h == Header_new(version, n, a, addr)
       IN  res' = [ op |-> "Header_new", args |-> [n |-> n, a |-> a, addr |-> addr],
                    built |-> h, bytes |-> Header_as_bytes(h),
                    crc_valid |-> Header_is_crc_valid(h),
                    parsed |-> Header_from_address(BufferOf(Header_as_bytes(h)), 0) ]
    /\ UNCHANGED <<mem, mgr, writes, pc, version, mem0>>

BuildExecuteInPlaceImage(slot, app_version, security_version, flags, stored_address, image_size_bytes, stored_crc_address) ==
    /\ pc = "running"
    /\ res = NoCall
    /\ LET d == App_new_execute_in_place_image(version, slot, app_version, security_version,
                    flags, stored_address, image_size_bytes, stored_crc_address)
       IN  res' = [ op |-> "new_execute_in_place_image",
                    args |-> [slot |-> slot, app_version |-> app_version,
                              security_version |-> security_version, flags |-> flags,
                              stored_address |-> stored_address,
                              image_size_bytes |-> image_size_bytes,
                              stored_crc_address |-> stored_crc_address],
                    built |-> d, bytes |-> App_as_bytes(d),
                    crc_valid |-> App_is_crc_valid(d),
                    parsed |-> App_from_address(BufferOf(App_as_bytes(d)), 0) ]
    /\ UNCHANGED <<mem, mgr, writes, pc, version, mem0>>

BuildRamImage(slot, app_version, security_version, flags, flash_address, image_size_bytes, ram_address, stored_crc_address) ==
    /\ pc = "running"
    /\ res = NoCall
    /\ LET d == App_new_ram_image(version, slot, app_version, security_version, flags,
                    flash_address, image_size_bytes, ram_address, stored_crc_address)
       IN  res' = [ op |-> "new_ram_image",
                    args |-> [slot |-> slot, app_version |-> app_version,
                              security_version |-> security_version, flags |-> flags,
                              flash_address |-> flash_address,
                              image_size_bytes |-> image_size_bytes,
                              ram_address |-> ram_address,
                              stored_crc_address |-> stored_crc_address],
                    built |-> d, bytes |-> App_as_bytes(d),
                    crc_valid |-> App_is_crc_valid(d),
                    parsed |-> App_from_address(BufferOf(App_as_bytes(d)), 0) ]
    /\ UNCHANGED <<mem, mgr, writes, pc, version, mem0>>

NextBuild ==
    \/ \E n \in CountSamples, a \in CountSamples, addr \in AddressSamples : BuildHeader(n, a, addr)
    \/ \E slot \in {U32(0), U32(MaxSlots)}, av \in VersionSamples, sv \in VersionSamples,
          flags \in FlagSamples, sa \in AddressSamples, size \in SizeSamples,
          ca \in {U32(0), MaxU32} :
            BuildExecuteInPlaceImage(slot, av, sv, flags, sa, size, ca)
    \/ \E slot \in {U32(0), U32(MaxSlots)}, av \in VersionSamples, sv \in {U32(1)},
          flags \in FlagSamples, fa \in AddressSamples, size \in SizeSamples,
          ra \in AddressSamples, ca \in {U32(0), MaxU32} :
            BuildRamImage(slot, av, sv, flags, fa, size, ra, ca)

SpecBuild == Init /\ [][NextBuild]_vars

----------------------------------------------------------------------------
(* C7: for every slot count n >= 1 and active index a < n, and every base  *)
(* address, the header built by new has a valid checksum, equal to the     *)
(* checksum of the 28 bytes before header_crc whatever header_crc holds,   *)
(* and parsing its bytes returns Ok with the same header.                  *)
C7_HeaderRoundTrip ==
    (res.op = "Header_new" /\ res.args.n # U32(0) /\ U32Lt(res.args.a, res.args.n)) =>
        /\ res.crc_valid
        /\ Len(res.bytes) = 32
        /\ res.built.header_crc = Checksum(SubSeq(res.bytes, 1, 28))
        /\ \A c \in {U32(0), MaxU32} :
              Header_compute_crc([res.built EXCEPT !.header_crc = c]) = res.built.header_crc
        /\ res.built.num_app_slots = res.args.n
        /\ res.built.active_app_slot = res.args.a
        /\ res.built.app_descriptor_base_address = res.args.addr
        /\ res.parsed.ok
        /\ res.parsed.value = res.built

\* a header for the largest slot count with the last slot active round-trips
C7_Witness ==
    /\ res.op = "Header_new"
    /\ res.args.n = MaxU32
    /\ res.args.a = << 254, 255, 255, 255 >>
    /\ res.args.addr = MaxU32
    /\ res.parsed.ok
    /\ res.parsed.value = res.built

----------------------------------------------------------------------------
(* C9: new_ram_image returns the caller's flags with bit 0 forced on and   *)
(* every other bit kept, stored_address = flash_address, execution_address *)
(* = ram_address, execution_copy_size_bytes = image_size_bytes, and a      *)
(* descriptor_crc equal to the checksum of the result.                     *)
C9_RamImage ==
    res.op = "new_ram_image" =>
        /\ res.built.flags[1] % 2 = 1
        /\ res.built.flags[1] \div 2 = res.args.flags[1] \div 2
        /\ \A k \in 2..4 : res.built.flags[k] = res.args.flags[k]
        /\ res.built.stored_address = res.args.flash_address
        /\ res.built.execution_address = res.args.ram_address
        /\ res.built.execution_copy_size_bytes = res.args.image_size_bytes
        /\ res.built.descriptor_crc = Checksum(SubSeq(res.bytes, 1, 40))
        /\ res.crc_valid

\* flags 2 (skip the image check) come back as 3
C9_Witness ==
    /\ res.op = "new_ram_image"
    /\ res.args.flags = U32(2)
    /\ res.built.flags = U32(3)
    /\ res.args.image_size_bytes = U32(512)
    /\ res.built.execution_copy_size_bytes = U32(512)
    /\ res.built.execution_address = U32(536870912)

----------------------------------------------------------------------------
(* C10: new_execute_in_place_image returns execution_address =             *)
(* stored_address and execution_copy_size_bytes = 0, the other fields as   *)
(* supplied, and a descriptor_crc equal to the checksum of all preceding   *)
(* fields, so that parsing the descriptor returns Ok.                      *)
C10_ExecuteInPlaceImage ==
    res.op = "new_execute_in_place_image" =>
        /\ res.built.execution_address = res.args.stored_address
        /\ res.built.execution_copy_size_bytes = U32(0)
        /\ res.built.app_slot_number = res.args.slot
        /\ res.built.app_version = res.args.app_version
        /\ res.built.security_version = res.args.security_version
        /\ res.built.flags = res.args.flags
        /\ res.built.stored_address = res.args.stored_address
        /\ res.built.image_size_bytes = res.args.image_size_bytes
        /\ res.built.stored_crc_address = res.args.stored_crc_address
        /\ Len(res.bytes) = 44
        /\ res.built.descriptor_crc = Checksum(SubSeq(res.bytes, 1, 40))
        /\ res.parsed.ok
        /\ res.parsed.value = res.built

\* an image of 512 bytes stored at 0x1000 executes in place
C10_Witness ==
    /\ res.op = "new_execute_in_place_image"
    /\ res.args.stored_address = U32(4096)
    /\ res.args.image_size_bytes = U32(512)
    /\ res.built.execution_address = U32(4096)
    /\ res.built.execution_copy_size_bytes = U32(0)
    /\ res.parsed.ok

----------------------------------------------------------------------------
(* Single-byte changes of a valid serialized record *)

\* the valid records a byte is changed in
TakeHeader(n, a, base) ==
    /\ pc = "running"
    /\ res = NoCall
    /\ LET h == Header_new(version, U32(n), U32(a), U32(base))
       IN  /\ Header_from_address(BufferOf(Header_as_bytes(h)), 0).ok
           /\ res' = [op |-> "record", kind |-> "header", bytes |-> Header_as_bytes(h)]
    /\ UNCHANGED <<mem, mgr, writes, pc, version, mem0>>

TakeAppImage(p, kind) ==
    /\ pc = "running"
    /\ res = NoCall
    /\ LET d == ToolImage(version, p, kind, 1)
       IN  /\ App_from_address(BufferOf(App_as_bytes(d)), 0).ok
           /\ res' = [op |-> "record", kind |-> "app", bytes |-> App_as_bytes(d)]
    /\ UNCHANGED <<mem, mgr, writes, pc, version, mem0>>

\* byte pos of the record becomes v, and the changed bytes are parsed
ChangeByte(pos, v) ==
    /\ pc = "running"
    /\ res.op = "record"
    /\ pos <= Len(res.bytes)
    /\ v # res.bytes[pos]
    /\ LET changed == [res.bytes EXCEPT ![pos] = v]
           buf     == BufferOf(changed)
       IN  res' = [ op |-> "changed", kind |-> res.kind, pos |-> pos, bytes |-> changed,
                    crc_valid |-> IF res.kind = "header"
                                    THEN Header_is_crc_valid(HeaderAt(buf, 0))
                                    ELSE App_is_crc_valid(AppAt(buf, 0)),
                    parsed |-> IF res.kind = "header"
                                 THEN Header_from_address(buf, 0)
                                 ELSE App_from_address(buf, 0) ]
    /\ UNCHANGED <<mem, mgr, writes, pc, version, mem0>>

NextChange ==
    \/ \E n \in {1, MaxSlots}, a \in {0, MaxSlots - 1} : TakeHeader(n, a, SlotAddr(0))
    \/ \E kind \in {"xip", "ram"} : TakeAppImage(0, kind)
    \/ res.op = "record" /\ \E pos \in 1..Len(res.bytes), v \in Byte : ChangeByte(pos, v)

SpecChange == Init /\ [][NextChange]_vars

\* C8 as stated: every single-byte change of a valid record makes
\* is_crc_valid false and makes parsing return the checksum error of the
\* record's type with found # expected.
C8_AnyByteChangeIsChecksumError ==
    res.op = "changed" =>
        /\ ~res.crc_valid
        /\ ~res.parsed.ok
        /\ res.parsed.err.kind = (IF res.kind = "header" THEN "InvalidHeaderCrc" ELSE "InvalidAppCrc")
        /\ res.parsed.err.found # res.parsed.err.expected

\* C8, amended: every single-byte change of a valid record makes
\* is_crc_valid false and parsing fail; the error is the checksum error of
\* the record's type with found # expected, except for a change in the four
\* signature bytes of a Region Header, which yields InvalidSignature.
C8_ByteChangeDetected ==
    res.op = "changed" =>
        /\ ~res.crc_valid
        /\ ~res.parsed.ok
        /\ IF res.kind = "header" /\ res.pos <= 4
             THEN res.parsed.err = [kind |-> "InvalidSignature"]
             ELSE /\ res.parsed.err.kind =
                        (IF res.kind = "header" THEN "InvalidHeaderCrc" ELSE "InvalidAppCrc")
                  /\ res.parsed.err.found # res.parsed.err.expected

\* the last data byte of a descriptor (execution_address) was changed and
\* the parse reports the checksum error
C8_Witness ==
    /\ res.op = "changed"
    /\ res.kind = "app"
    /\ res.pos = 40
    /\ res.parsed.err.kind = "InvalidAppCrc"
    /\ res.parsed.err.found # res.parsed.err.expected

====
